---- MODULE Spec2Model ----
(***************************************************************************)
(* Preliminary aircraft sizing scripts (EAE130): the TOGW fixed-point      *)
(* iteration and the fuel-fraction chain of                                *)
(*   A2_weight_est_concept_1.py          (iterate_W0 / solve_case)         *)
(*   # Weight Concept 2 - Carrier-Based Fight.py   (module-level loop)     *)
(*                                                                         *)
(* Numbers.  The scripts compute in Python floats.  The model computes in  *)
(* exact rationals [n, d] (d > 0, lowest terms), which agree with the      *)
(* floats up to their rounding.  The exponent C of the empty-weight        *)
(* correlation ranges over integers, for which W0 ** C is rational.        *)
(* math.exp(x) of a rational x # 0 is irrational: the fuel-fraction chain  *)
(* keeps such values exactly, as a + b * e^q with rational a, b, q.        *)
(* A Python exception ends the run in a state whose exc names it.          *)
(*                                                                         *)
(* Runs.  A behaviour executes one script from its top, section by         *)
(* section.  The constants the scripts hard-code are inputs drawn from     *)
(* small sets.  A section draws from its full input set in the runs whose  *)
(* earlier sections took their reference inputs, and takes its reference   *)
(* inputs in the other runs.                                               *)
(***************************************************************************)
EXTENDS Integers, Sequences, FiniteSets

(***************************************************************************)
(* Rational arithmetic                                                     *)
(***************************************************************************)
RECURSIVE GCD(_, _)
GCD(a, b) == IF b = 0 THEN a ELSE GCD(b, a % b)

AbsInt(a) == IF a < 0 THEN -a ELSE a

\* The rational n/d (d # 0) in lowest terms with a positive denominator.
Rat(n, d) ==
  LET g == GCD(AbsInt(n), AbsInt(d))
      s == IF d < 0 THEN -1 ELSE 1
  IN  [n |-> (s * n) \div g, d |-> (s * d) \div g]

Zero == Rat(0, 1)
One  == Rat(1, 1)

\* A Python name that is not bound yet (no rational has d = 0).
Unbound == [n |-> 0, d |-> 0]

\* Sums, products and quotients cancel common factors before they multiply,
\* so that no intermediate value is larger than the result requires.
RAdd(a, b) ==
  LET g == GCD(a.d, b.d) IN
  Rat(a.n * (b.d \div g) + b.n * (a.d \div g), (a.d \div g) * b.d)
RSub(a, b) ==
  LET g == GCD(a.d, b.d) IN
  Rat(a.n * (b.d \div g) - b.n * (a.d \div g), (a.d \div g) * b.d)
RMul(a, b) ==
  IF a.n = 0 \/ b.n = 0 THEN [n |-> 0, d |-> 1]
  ELSE LET g1 == GCD(AbsInt(a.n), b.d)
           g2 == GCD(AbsInt(b.n), a.d)
       IN  [n |-> (a.n \div g1) * (b.n \div g2),
            d |-> (a.d \div g2) * (b.d \div g1)]
\* a / b for b # 0
RDiv(a, b) ==
  RMul(a, IF b.n < 0 THEN [n |-> -b.d, d |-> -b.n] ELSE [n |-> b.d, d |-> b.n])
RNeg(a)    == [n |-> -a.n, d |-> a.d]
RAbs(a)    == [n |-> AbsInt(a.n), d |-> a.d]
RLt(a, b) ==
  LET g == GCD(a.d, b.d) IN a.n * (b.d \div g) < b.n * (a.d \div g)
RLe(a, b) ==
  LET g == GCD(a.d, b.d) IN a.n * (b.d \div g) <= b.n * (a.d \div g)
RInt(k)    == Rat(k, 1)
IsZero(a)  == a.n = 0

\* A value of the fuel-fraction chain is a rational [n, d] or, when an
\* exponential of a non-zero argument went into it, the record [a, b, q]
\* that stands for a + b * e^q (b # 0, q # 0).
IsRational(v) == DOMAIN v = {"n", "d"}

(***************************************************************************)
(* Bounds of the model and the input sets the operations draw from         *)
(***************************************************************************)
\* max_iter of iterate_W0 ranges over 0..MaxIter.
MaxIter == 3
\* The while loop of concept 2 has no cap of its own: the model stops
\* exploring a run after MaxSteps passes through the loop body.
MaxSteps == 3
\* Unit weights of the stores range over 0..MaxWeight.
MaxWeight == 1
\* segment_fracs holds up to MaxSegs segments.
MaxSegs == 2

Coeffs     == {Rat(1, 2), Rat(1, 1), Rat(2, 1)}
Exponents  == {-1, 0}
Seeds      == {Rat(0, 1), Rat(1, 1), Rat(2, 1), Rat(4, 1)}
Tolerances == {Rat(-1, 2), Rat(0, 1), Rat(1, 5), Rat(2, 5)}
Loads      == 0 .. 2
SegFracs   == {Rat(-1, 2), Rat(0, 1), Rat(1, 2), Rat(3, 4), Rat(1, 1),
               Rat(3, 2)}
Reserves   == {Rat(1, 1), Rat(5, 4)}
Speeds     == {-1, 0, 1}
LiftDrags  == {-1, 0, 1, 2}
Ranges     == {0, 1}
Endurances == {0, 1}
Tsfcs      == {1, 2}
Tags       == {"A2A", "STRIKE", "BOTH", "CAS", ""}
\* n_crew / n_pilots, the weight or mass of one crew member, kg_to_lb,
\* W_avionics
Crews      == {1}
CrewUnits  == {0, 1}
KgToLb     == {2}
Avionics   == {0, 1}

\* The inputs of one section, as records.
BreguetInputs ==
  [r : Ranges, e : Endurances, c : Tsfcs, ld : LiftDrags, v : Speeds]
SegSeqs == UNION {[1 .. n -> SegFracs] : n \in 0 .. MaxSegs}
FuelInputs == [fracs : SegSeqs, rf : Reserves]
SolveInputs ==
  [a : Coeffs, k : Exponents, g : Seeds, e : Tolerances, wp : Loads,
   m : 0 .. MaxIter]

\* The reference inputs of the sections.
BreguetReferenceInput == [r |-> 0, e |-> 0, c |-> 1, ld |-> 1, v |-> 1]
FuelReferenceInput    == [fracs |-> <<Rat(1, 1)>>, rf |-> Rat(5, 4)]
SolveReferenceInput   ==
  [a |-> Rat(1, 2), k |-> 0, g |-> Rat(4, 1), e |-> Rat(1, 5), wp |-> 2,
   m |-> MaxIter]

(***************************************************************************)
(* State: the scripts' variables, the position in the script (pc), the     *)
(* exception that ended the run (exc, "" while none) and which script runs *)
(***************************************************************************)
VARIABLES
  pc, exc, variant,
  \* payload section
  mission_type, W_AIM120, W_AIM9X, W_MK83, W_payload, W_crew, W_avionics,
  \* fuel-fraction section
  R_nmi, E_hr, c_tsfc, LD_cruise, V_kt, Wf_Wi_cruise, Wf_Wi_loiter,
  segment_fracs, reserve_factor, W_end_W0, fuel_frac_mission, fuel_frac_total,
  \* TOGW iteration
  A, C, err, max_iter, W0_guess, W0, We_W0, denom, W0_new, delta, i,
  W0_history,
  ret, We, case,
  \* re-seeded second solve: which solve this is, and the first one's result
  run, first

payloadVars == <<mission_type, W_AIM120, W_AIM9X, W_MK83>>
loadVars    == <<W_payload, W_crew, W_avionics>>
fuelVars    == <<R_nmi, E_hr, c_tsfc, LD_cruise, V_kt, Wf_Wi_cruise, Wf_Wi_loiter,
                 segment_fracs, reserve_factor, W_end_W0, fuel_frac_mission>>
paramVars   == <<A, C, err, max_iter, W0_guess>>
iterVars    == <<W0, We_W0, denom, W0_new, delta, i, W0_history>>
outVars     == <<ret, We, case>>
vars == <<pc, exc, variant, payloadVars, loadVars, fuelVars, fuel_frac_total,
          paramVars, iterVars, outVars, run, first>>

\* W_payload before the mission selection binds it (weights are >= 0).
Unassigned == -1

Init ==
  /\ pc = "start" /\ exc = "" /\ variant = "none"
  /\ mission_type = "" /\ W_AIM120 = 0 /\ W_AIM9X = 0 /\ W_MK83 = 0
  /\ W_payload = Unassigned /\ W_crew = 0 /\ W_avionics = 0
  /\ R_nmi = 0 /\ E_hr = 0 /\ c_tsfc = 0 /\ LD_cruise = 0 /\ V_kt = 0
  /\ Wf_Wi_cruise = Unbound /\ Wf_Wi_loiter = Unbound
  /\ segment_fracs = << >> /\ reserve_factor = Unbound
  /\ W_end_W0 = Unbound /\ fuel_frac_mission = Unbound /\ fuel_frac_total = Unbound
  /\ A = Unbound /\ C = 0 /\ err = Unbound /\ max_iter = 0 /\ W0_guess = Unbound
  /\ W0 = Unbound /\ We_W0 = Unbound /\ denom = Unbound /\ W0_new = Unbound
  /\ delta = Unbound /\ i = 0 /\ W0_history = << >>
  /\ ret = << >> /\ We = Unbound /\ case = << >>
  /\ run = 0 /\ first = << >>

(***************************************************************************)
(* Which runs a section varies its inputs in                               *)
(***************************************************************************)
\* The payload section ran on reference inputs: air-to-air mission, only
\* the W_AIM9X and crew weights varied (concept 1 has no selection).
MissionReference ==
  \/ variant = "concept1"
  \/ /\ mission_type = "A2A" /\ W_AIM120 = 0 /\ W_MK83 = 0 /\ W_avionics = 0

\* The Breguet statements ran on their reference input.
BreguetReference ==
  /\ R_nmi = BreguetReferenceInput.r /\ E_hr = BreguetReferenceInput.e
  /\ c_tsfc = BreguetReferenceInput.c /\ LD_cruise = BreguetReferenceInput.ld
  /\ V_kt = BreguetReferenceInput.v

\* At most one segment in the table and no reserve on top.
ShortTable == Len(segment_fracs) <= 1 /\ reserve_factor = One

InputsOfBreguet ==
  IF MissionReference THEN BreguetInputs ELSE {BreguetReferenceInput}
InputsOfFuel ==
  IF MissionReference /\ BreguetReference THEN FuelInputs
  ELSE {FuelReferenceInput}
InputsOfSolve ==
  IF MissionReference /\ BreguetReference /\ ShortTable THEN SolveInputs
  ELSE {SolveReferenceInput}

(***************************************************************************)
(* TOGW iteration: the loop body shared by iterate_W0 and the while loop   *)
(***************************************************************************)
\* W0 ** C for an integer C; Python raises ZeroDivisionError for 0 ** (C < 0).
PowDefined(w, k) == ~(IsZero(w) /\ k < 0)

RECURSIVE RPow(_, _)
RPow(w, k) ==
  IF k = 0 THEN One
  ELSE IF k > 0 THEN RMul(w, RPow(w, k - 1))
  ELSE RDiv(One, RPow(w, -k))

\* We_W0 = A * (W0 ** C)
EmptyWeightFraction(a, w, k) == RMul(a, RPow(w, k))

\* denom = 1.0 - fuel_frac - We_W0
Denominator(f, we) == RSub(RSub(One, f), we)

\* The fixed weights the update divides: W_payload + W_crew in iterate_W0,
\* W_payload + W_crew + W_avionics in the while loop of concept 2.
Numerator ==
  IF variant = "concept1" THEN RInt(W_payload + W_crew)
  ELSE RInt(W_payload + W_crew + W_avionics)

\* W0_new = numerator / denom  (denom # 0)
W0Update(num, dn) == RDiv(num, dn)

\* The change computed without abs() on the difference: a guess that
\* shrinks has a negative change, below every positive tolerance.
RelChangeSigned(wn, w) == RDiv(RSub(wn, w), RAbs(wn))

\* delta = abs(W0_new - W0) / abs(W0_new)  (W0_new # 0)
RelChange(wn, w) == RDiv(RAbs(RSub(wn, w)), RAbs(wn))

\* One pass through the loop body from the current W0: the values the body
\* leaves in its variables, and the exception it raised, if any.  A statement
\* that raises assigns nothing; the statements before it have taken effect.
Body ==
  LET keep == [exc |-> "ZeroDivisionError", W0 |-> W0, We_W0 |-> We_W0,
               denom |-> denom, W0_new |-> W0_new, delta |-> delta]
  IN
  IF ~PowDefined(W0, C) THEN keep
  ELSE
    LET we == EmptyWeightFraction(A, W0, C)
        dn == Denominator(fuel_frac_total, we)
    IN
    IF IsZero(dn) THEN [keep EXCEPT !.We_W0 = we, !.denom = dn]
    ELSE
      LET wn == W0Update(Numerator, dn) IN
      IF IsZero(wn) THEN [keep EXCEPT !.We_W0 = we, !.denom = dn, !.W0_new = wn]
      ELSE [exc |-> "", W0 |-> wn, We_W0 |-> we, denom |-> dn, W0_new |-> wn,
            delta |-> RelChange(wn, W0)]

(***************************************************************************)
(* Concept 1: iterate_W0 and its caller solve_case                         *)
(***************************************************************************)
\* W_engine = 3830, added by solve_case to W0 and We.
W_engine == 3830

\* W0 = float(W0_guess): the value of the guess, unchanged.
InitialGuess(g) == g

\* A = ..., C = ... (lines 95-96), then a call solve_case(name,
\* W_payload_case, W0_guess), which calls iterate_W0(W_payload_case, W_crew,
\* fuel_frac_total, W0_guess=W0_guess).  W_payload_case and W0_guess are
\* arguments of the call; err and max_iter are iterate_W0's parameters.
\* The solve is explored for the fuel fractions that are rational numbers.
Call_iterate_W0 ==
  /\ variant = "concept1" /\ pc = "fuel" /\ exc = ""
  /\ IsRational(fuel_frac_total)
  /\ \E in \in InputsOfSolve :
       /\ A' = in.a /\ C' = in.k /\ err' = in.e /\ max_iter' = in.m
       /\ W_payload' = in.wp
       /\ W0_guess' = in.g /\ W0' = InitialGuess(in.g)
  /\ pc' = "for" /\ run' = 1
  /\ UNCHANGED <<exc, variant, payloadVars, W_crew, W_avionics, fuelVars,
                 fuel_frac_total, We_W0, denom, W0_new, delta, i, W0_history,
                 outVars, first>>

\* The tuple iterate_W0 returns.
Result(w, we, n, d) == [W0 |-> w, We_W0 |-> we, iters |-> n, delta |-> d]

\* if delta < err
Converged(d, e) == RLt(d, e)

\* One iteration of "for i in range(max_iter)", with the return from inside
\* the loop when delta < err.
IterateStep ==
  /\ variant = "concept1" /\ pc = "for" /\ exc = "" /\ i < max_iter
  /\ LET b == Body IN
       /\ exc' = b.exc /\ W0' = b.W0 /\ We_W0' = b.We_W0 /\ denom' = b.denom
       /\ W0_new' = b.W0_new /\ delta' = b.delta
       /\ i' = IF b.exc = "" THEN i + 1 ELSE i
       /\ IF b.exc = "" /\ Converged(b.delta, err)
          THEN /\ ret' = <<Result(b.W0, b.We_W0, i + 1, b.delta)>>
               /\ pc' = "returned"
          ELSE UNCHANGED <<ret, pc>>
  /\ UNCHANGED <<variant, payloadVars, loadVars, fuelVars, fuel_frac_total,
                 paramVars, W0_history, We, case, run, first>>

\* The loop ran max_iter times without returning:
\* return W0, A * (W0 ** C), max_iter, delta
ReturnAtCap ==
  /\ variant = "concept1" /\ pc = "for" /\ exc = "" /\ i = max_iter
  /\ IF ~PowDefined(W0, C)
     THEN exc' = "ZeroDivisionError" /\ UNCHANGED <<ret, pc>>
     ELSE IF delta = Unbound
     THEN exc' = "UnboundLocalError" /\ UNCHANGED <<ret, pc>>
     ELSE /\ ret' = <<Result(W0, EmptyWeightFraction(A, W0, C), max_iter, delta)>>
          /\ pc' = "returned"
          /\ UNCHANGED exc
  /\ UNCHANGED <<variant, payloadVars, loadVars, fuelVars, fuel_frac_total,
                 paramVars, iterVars, We, case, run, first>>

\* solve_case with W_engine added to W0 only, We left as We_W0 * W0.
CaseDictBareEmpty(r, f) ==
  [W0 |-> RAdd(r.W0, RInt(W_engine)),
   We |-> RMul(r.We_W0, r.W0),
   Wf |-> RMul(f, r.W0),
   WeW0 |-> r.We_W0, WfW0 |-> f, iters |-> r.iters]

\* solve_case: the dictionary built from iterate_W0's tuple.
CaseDict(r, f) ==
  [W0 |-> RAdd(r.W0, RInt(W_engine)),
   We |-> RAdd(RMul(r.We_W0, r.W0), RInt(W_engine)),
   Wf |-> RMul(f, r.W0),
   WeW0 |-> r.We_W0, WfW0 |-> f, iters |-> r.iters]

SolveCase ==
  /\ variant = "concept1" /\ pc = "returned" /\ exc = ""
  /\ case' = <<CaseDict(ret[1], fuel_frac_total)>>
  /\ pc' = "solved"
  /\ UNCHANGED <<exc, variant, payloadVars, loadVars, fuelVars, fuel_frac_total,
                 paramVars, iterVars, ret, We, run, first>>

(***************************************************************************)
(* Concept 2: the module-level while loop                                  *)
(***************************************************************************)
\* delta = 2 * error
InitialDelta(e) == RMul(RInt(2), e)

\* A, C, error, W0_history = [], W0 = <seed>, delta = 2 * error  (W0_guess
\* keeps the seed the script was configured with).  The loop is explored
\* for the fuel fractions that are rational numbers.
TOGW_Init ==
  /\ variant = "concept2" /\ pc = "fuel" /\ exc = ""
  /\ IsRational(fuel_frac_total)
  /\ \E in \in {x \in InputsOfSolve : x.wp = SolveReferenceInput.wp
                                      /\ x.m = SolveReferenceInput.m} :
       /\ A' = in.a /\ C' = in.k /\ err' = in.e
       /\ W0_guess' = in.g /\ W0' = in.g /\ delta' = InitialDelta(in.e)
  /\ W0_history' = << >>
  /\ pc' = "while" /\ run' = 1
  /\ UNCHANGED <<exc, variant, payloadVars, loadVars, fuelVars, fuel_frac_total,
                 max_iter, We_W0, denom, W0_new, i, outVars, first>>

\* while delta > error
LoopTest(d, e) == RLt(e, d)

\* One pass through the body of the while loop: the guess is appended to
\* W0_history before anything that can raise.
LoopBody ==
  /\ variant = "concept2" /\ pc = "while" /\ exc = ""
  /\ LoopTest(delta, err)
  /\ Len(W0_history) < MaxSteps
  /\ W0_history' = Append(W0_history, W0)
  /\ LET b == Body IN
       /\ exc' = b.exc /\ W0' = b.W0 /\ We_W0' = b.We_W0 /\ denom' = b.denom
       /\ W0_new' = b.W0_new /\ delta' = b.delta
  /\ UNCHANGED <<pc, variant, payloadVars, loadVars, fuelVars, fuel_frac_total,
                 paramVars, i, outVars, run, first>>

\* The loop test fails: W0_history = np.array(W0_history); We = We_W0 * W0.
\* We_W0 is bound only by the loop body.
LoopExit ==
  /\ variant = "concept2" /\ pc = "while" /\ exc = ""
  /\ ~LoopTest(delta, err)
  /\ IF We_W0 = Unbound
     THEN exc' = "NameError" /\ UNCHANGED <<pc, We>>
     ELSE We' = RMul(We_W0, W0) /\ pc' = "sized" /\ UNCHANGED exc
  /\ UNCHANGED <<variant, payloadVars, loadVars, fuelVars, fuel_frac_total,
                 paramVars, iterVars, ret, case, run, first>>

(***************************************************************************)
(* The solve repeated with the converged W0 as the seed guess              *)
(***************************************************************************)
\* iterate_W0 called again with the same arguments and W0_guess = the W0 it
\* returned through "if delta < err".
Reseed_iterate_W0 ==
  /\ variant = "concept1" /\ pc = "returned" /\ exc = "" /\ run = 1
  /\ Converged(ret[1].delta, err)
  /\ first' = ret /\ ret' = << >>
  /\ W0_guess' = ret[1].W0 /\ W0' = InitialGuess(ret[1].W0)
  /\ We_W0' = Unbound /\ denom' = Unbound /\ W0_new' = Unbound
  /\ delta' = Unbound /\ i' = 0
  /\ pc' = "for" /\ run' = 2
  /\ UNCHANGED <<exc, variant, payloadVars, loadVars, fuelVars, fuel_frac_total,
                 A, C, err, max_iter, W0_history, We, case>>

\* The script of concept 2 run again with W0 = the W0 the loop ended with.
Reseed_TOGW ==
  /\ variant = "concept2" /\ pc = "sized" /\ exc = "" /\ run = 1
  /\ first' = <<Result(W0, We_W0, Len(W0_history), delta)>>
  /\ W0_guess' = W0
  /\ W0_history' = << >> /\ delta' = InitialDelta(err)
  /\ We_W0' = Unbound /\ denom' = Unbound /\ W0_new' = Unbound /\ We' = Unbound
  /\ pc' = "while" /\ run' = 2
  /\ UNCHANGED <<exc, variant, payloadVars, loadVars, fuelVars, fuel_frac_total,
                 A, C, err, max_iter, W0, i, ret, case>>

(***************************************************************************)
(* Concept 2, sections 2-3: payload definitions and mission selection      *)
(***************************************************************************)
\* W_A2A = 6 * W_AIM120 + 2 * W_AIM9X
W_A2A(w120, w9x) == 6 * w120 + 2 * w9x

\* W_strike = 4 * W_MK83 + 2 * W_AIM9X
W_strike(wmk83, w9x) == 4 * wmk83 + 2 * w9x

\* The selection with an else branch that falls back to the air-to-air load
\* instead of raising.
MissionPayloadDefaulting(tag, a2a, strike) ==
  IF tag = "STRIKE" THEN strike
  ELSE IF tag = "BOTH" THEN a2a + strike
  ELSE a2a

\* The if / elif / else on mission_type; Unassigned where the else raises.
MissionPayload(tag, a2a, strike) ==
  IF tag = "A2A" THEN a2a
  ELSE IF tag = "STRIKE" THEN strike
  ELSE IF tag = "BOTH" THEN a2a + strike
  ELSE Unassigned

\* W_crew = n_crew * W_crew_per
CrewWeight(n, per) == n * per

\* Sections 1-3 of concept 2: crew, avionics, store weights and the
\* selection of the payload.
SelectMission ==
  /\ pc = "start"
  /\ \E n \in Crews, per \in CrewUnits, wa \in Avionics, tag \in Tags,
        w120 \in 0 .. MaxWeight, w9x \in 0 .. MaxWeight,
        wmk83 \in 0 .. MaxWeight :
       /\ W_crew' = CrewWeight(n, per) /\ W_avionics' = wa
       /\ mission_type' = tag
       /\ W_AIM120' = w120 /\ W_AIM9X' = w9x /\ W_MK83' = wmk83
       /\ LET p == MissionPayload(tag, W_A2A(w120, w9x), W_strike(wmk83, w9x)) IN
            IF p = Unassigned
            THEN exc' = "ValueError" /\ UNCHANGED W_payload
            ELSE W_payload' = p /\ UNCHANGED exc
  /\ variant' = "concept2" /\ pc' = "mission"
  /\ UNCHANGED <<fuelVars, fuel_frac_total, paramVars, iterVars, outVars, run,
                 first>>

(***************************************************************************)
(* Fuel fractions: Breguet ratios, segment product, reserve                *)
(***************************************************************************)
\* a + b * e^q, as a rational when it is one.
Affine(a, b, q) ==
  IF IsZero(b) THEN a
  ELSE IF IsZero(q) THEN RAdd(a, b)
  ELSE [a |-> a, b |-> b, q |-> q]

\* math.exp(x): 1.0 at x = 0, e^x otherwise.
Exp(x) == Affine(Zero, One, x)

\* r * v for a rational r.
Scaled(r, v) ==
  IF IsRational(v) THEN RMul(r, v)
  ELSE Affine(RMul(r, v.a), RMul(r, v.b), v.q)

\* u * v where each factor is a rational or a multiple b * e^q of an
\* exponential (the products W_end_W0 is built from):
\* (b1 * e^q1) * (b2 * e^q2) = b1 * b2 * e^(q1 + q2).
Times(u, v) ==
  IF IsRational(u) THEN Scaled(u, v)
  ELSE IF IsRational(v) THEN Scaled(v, u)
  ELSE Affine(Zero, RMul(u.b, v.b), RAdd(u.q, v.q))

\* r - v for a rational r.
Minus(r, v) ==
  IF IsRational(v) THEN RSub(r, v)
  ELSE Affine(RSub(r, v.a), RNeg(v.b), v.q)

\* math.exp(-R_nmi * c_tsfc / (V_kt * LD_cruise))   (V_kt * LD_cruise # 0)
BreguetCruise(r, c, v, ld) == Exp(Rat(-(r * c), v * ld))

\* math.exp(-E_hr * c_tsfc / LD_cruise)   (LD_cruise # 0)
BreguetLoiter(e, c, ld) == Exp(Rat(-(e * c), ld))

\* W_crew = n_pilots * pilot_mass_kg * kg_to_lb
CrewWeight_lb(n, mass, k) == n * mass * k

\* Concept 1, crew: the first statements of the script that the solve reads.
Crew_concept1 ==
  /\ pc = "start"
  /\ \E n \in Crews, mass \in CrewUnits, k \in KgToLb :
       W_crew' = CrewWeight_lb(n, mass, k)
  /\ variant' = "concept1" /\ pc' = "crew"
  /\ UNCHANGED <<exc, payloadVars, W_payload, W_avionics, fuelVars,
                 fuel_frac_total, paramVars, iterVars, outVars, run, first>>

\* Concept 1: both ratios are computed unconditionally, the cruise one first.
Breguet_concept1 ==
  /\ variant = "concept1" /\ pc = "crew"
  /\ \E in \in InputsOfBreguet :
       /\ R_nmi' = in.r /\ E_hr' = in.e /\ c_tsfc' = in.c
       /\ LD_cruise' = in.ld /\ V_kt' = in.v
       /\ IF in.v * in.ld = 0
          THEN /\ exc' = "ZeroDivisionError"
               /\ UNCHANGED <<Wf_Wi_cruise, Wf_Wi_loiter>>
          ELSE /\ Wf_Wi_cruise' = BreguetCruise(in.r, in.c, in.v, in.ld)
               /\ Wf_Wi_loiter' = BreguetLoiter(in.e, in.c, in.ld)
               /\ UNCHANGED exc
  /\ pc' = "breguet"
  /\ UNCHANGED <<variant, payloadVars, loadVars, segment_fracs, reserve_factor, W_end_W0,
                 fuel_frac_mission, fuel_frac_total, paramVars, iterVars,
                 outVars, run, first>>

\* Concept 2:
\*   Wf_Wi_cruise = math.exp(...) if V_kt > 0 else 1.0
\*   Wf_Wi_loiter = math.exp(...) if LD_cruise > 0 else 1.0
Breguet_concept2 ==
  /\ variant = "concept2" /\ pc = "mission" /\ exc = ""
  /\ \E in \in InputsOfBreguet :
       /\ R_nmi' = in.r /\ E_hr' = in.e /\ c_tsfc' = in.c
       /\ LD_cruise' = in.ld /\ V_kt' = in.v
       /\ IF in.v > 0 /\ in.v * in.ld = 0
          THEN /\ exc' = "ZeroDivisionError"
               /\ UNCHANGED <<Wf_Wi_cruise, Wf_Wi_loiter>>
          ELSE /\ Wf_Wi_cruise' = IF in.v > 0
                                  THEN BreguetCruise(in.r, in.c, in.v, in.ld)
                                  ELSE One
               /\ Wf_Wi_loiter' = IF in.ld > 0
                                  THEN BreguetLoiter(in.e, in.c, in.ld)
                                  ELSE One
               /\ UNCHANGED exc
  /\ pc' = "breguet"
  /\ UNCHANGED <<variant, payloadVars, loadVars, segment_fracs, reserve_factor, W_end_W0,
                 fuel_frac_mission, fuel_frac_total, paramVars, iterVars,
                 outVars, run, first>>

\* W_end_W0 = 1.0; for frac in segment_fracs.values(): W_end_W0 *= frac
RECURSIVE SegmentProduct(_)
SegmentProduct(fracs) ==
  IF fracs = << >> THEN One
  ELSE RMul(SegmentProduct(SubSeq(fracs, 1, Len(fracs) - 1)), fracs[Len(fracs)])

\* ... W_end_W0 *= Wf_Wi_cruise; W_end_W0 *= Wf_Wi_loiter
EndFraction(fracs, cruise, loiter) ==
  Times(Times(SegmentProduct(fracs), cruise), loiter)

\* fuel_frac_mission = 1.0 - W_end_W0
MissionFuelFraction(wend) == Minus(One, wend)

\* fuel_frac_total = reserve_factor * fuel_frac_mission
TotalFuelFraction(reserve, mission) == Scaled(reserve, mission)

\* The segment table, the product and the two fuel fractions (the same
\* statements in both scripts).
FuelFractions ==
  /\ pc = "breguet" /\ exc = ""
  /\ \E in \in InputsOfFuel :
       /\ segment_fracs' = in.fracs /\ reserve_factor' = in.rf
       /\ W_end_W0' = EndFraction(in.fracs, Wf_Wi_cruise, Wf_Wi_loiter)
       /\ fuel_frac_mission' = MissionFuelFraction(W_end_W0')
       /\ fuel_frac_total' = TotalFuelFraction(in.rf, fuel_frac_mission')
  /\ pc' = "fuel"
  /\ UNCHANGED <<exc, variant, payloadVars, loadVars, R_nmi, E_hr, c_tsfc,
                 LD_cruise, V_kt, Wf_Wi_cruise, Wf_Wi_loiter, paramVars,
                 iterVars, outVars, run, first>>

Next ==
  \/ SelectMission \/ Crew_concept1
  \/ Breguet_concept1 \/ Breguet_concept2 \/ FuelFractions
  \/ Call_iterate_W0 \/ IterateStep \/ ReturnAtCap \/ SolveCase
  \/ TOGW_Init \/ LoopBody \/ LoopExit
  \/ Reseed_iterate_W0 \/ Reseed_TOGW

Spec == Init /\ [][Next]_vars

(***************************************************************************)
(* Properties                                                              *)
(***************************************************************************)
\* The run is in (or past) a TOGW solve.
InSolve == pc \in {"for", "returned", "solved", "while", "sized"}

\* A positive seed guess, a positive fixed weight to carry and a fuel
\* fraction in [0, 1).
SaneInputs ==
  /\ RLt(Zero, W0_guess) /\ RLt(Zero, Numerator)
  /\ RLe(Zero, fuel_frac_total) /\ RLt(fuel_frac_total, One)

\* The running guess is positive and the latest denominator, if any, was.
FeasibleSoFar == RLt(Zero, W0) /\ (denom = Unbound \/ RLt(Zero, denom))

\* Passes through the loop body completed by the current solve.
RunIters == IF variant = "concept1" THEN i ELSE Len(W0_history)

\* C1: whenever an iteration finds the denominator
\* 1 - total_fuel_fraction - A * W0^C non-positive the solve ends in a
\* failure at that iteration, and no negative W0 is ever the running guess
\* or the returned TOGW.
C1_NonPositiveDenominatorFails ==
  (InSolve /\ SaneInputs /\ RLt(Zero, err)) =>
    /\ (denom # Unbound /\ RLe(denom, Zero)) => exc # ""
    /\ W0 # Unbound => RLe(Zero, W0)
    /\ ret # << >> => RLe(Zero, ret[1].W0)

\* C2: a solve that used up the configured maximum number of iterations
\* without the relative change falling below the tolerance ends in a
\* failure: every tuple iterate_W0 returns, and every dictionary solve_case
\* builds from it, comes from a converged iteration, and the loop never runs
\* beyond the cap.
C2_CapIsFailure ==
  (variant = "concept1" /\ InSolve /\ SaneInputs /\ RLt(Zero, err)
     /\ FeasibleSoFar) =>
    /\ i <= max_iter
    /\ ret # << >> => Converged(ret[1].delta, err)
    /\ case # << >> => Converged(ret[1].delta, err)

\* C3: with payload, crew and fixed equipment all zero and a positive
\* denominator, the iteration returns W0 = 0 after exactly one iteration and
\* raises no division by zero.
C3_ZeroLoadReturnsZero ==
  (InSolve /\ Numerator = Zero /\ RLt(Zero, W0_guess) /\ RLt(Zero, err)
     /\ denom # Unbound /\ RLt(Zero, denom)) =>
    (exc = "" /\ W0 = Zero /\ RunIters = 1)

\* C4: a zero or negative tolerance is rejected before the first iteration:
\* no W0 update is computed and nothing is returned or reported as a TOGW.
C4_NonPositiveToleranceRejected ==
  (InSolve /\ SaneInputs /\ FeasibleSoFar /\ RLe(err, Zero)) =>
    (W0_new = Unbound /\ RunIters = 0 /\ ret = << >> /\ case = << >>
       /\ We = Unbound)

\* C5: after the mission selection, W_payload is exactly the air-to-air sum
\* for "A2A", the strike sum for "STRIKE" and the sum of both for "BOTH"; any
\* other tag raises and leaves W_payload unassigned.
C5_MissionSelection ==
  pc = "mission" =>
    /\ mission_type = "A2A" =>
         (exc = "" /\ W_payload = 6 * W_AIM120 + 2 * W_AIM9X)
    /\ mission_type = "STRIKE" =>
         (exc = "" /\ W_payload = 4 * W_MK83 + 2 * W_AIM9X)
    /\ mission_type = "BOTH" =>
         (exc = "" /\ W_payload = (6 * W_AIM120 + 2 * W_AIM9X)
                                   + (4 * W_MK83 + 2 * W_AIM9X))
    /\ mission_type \notin {"A2A", "STRIKE", "BOTH"} =>
         (exc = "ValueError" /\ W_payload = Unassigned)

\* "BOTH" selected with every store weighing 1: the payload is 8 + 6.
C5_Witness ==
  /\ pc = "mission" /\ mission_type = "BOTH" /\ exc = ""
  /\ W_AIM120 = 1 /\ W_AIM9X = 1 /\ W_MK83 = 1 /\ W_payload = 14

ContractingLastPass ==
  /\ RLt(Zero, first[1].W0)
  /\ RLt(Zero, first[1].We_W0)
  /\ RLe(first[1].We_W0, Denominator(fuel_frac_total, first[1].We_W0))

C7_HistoryHoldsEveryGuess ==
  (variant = "concept2" /\ pc = "sized") =>
    /\ Len(W0_history) >= 1
    /\ W0_history[1] = W0_guess
    /\ \E j \in 1 .. Len(W0_history) : W0_history[j] = W0

\* C8: W_end_W0 is never formed from a segment fraction outside (0, 1].
C8_SegmentFractionsInRange ==
  pc = "fuel" =>
    \A j \in 1 .. Len(segment_fracs) :
      RLt(Zero, segment_fracs[j]) /\ RLe(segment_fracs[j], One)

\* C9: the Breguet ratios of concept 2 never divide by zero: for every
\* V_kt and LD_cruise the two statements complete, with a cruise ratio of
\* 1.0 when V_kt <= 0 and a loiter ratio of 1.0 when LD_cruise <= 0.
C9_DegenerateBreguetIsOne ==
  (variant = "concept2" /\ pc = "breguet") =>
    /\ exc = ""
    /\ V_kt <= 0 => Wf_Wi_cruise = One
    /\ LD_cruise <= 0 => Wf_Wi_loiter = One

\* C10: the empty-weight fraction handed back with a TOGW is A * W0^C at
\* that TOGW, on the converged path and on the iteration-cap path, and the
\* empty weight of concept 2 is that fraction times the TOGW.
C10_EmptyFractionAtReturnedW0 ==
  /\ ret # << >> =>
       ret[1].We_W0 = EmptyWeightFraction(A, ret[1].W0, C)
  /\ (variant = "concept2" /\ pc = "sized") =>
       We = RMul(EmptyWeightFraction(A, W0, C), W0)


\* C11: iterate_W0 performs at most max_iter updates; the count it returns
\* is the number of updates it performed, and lies in 1..max_iter when it
\* returned converged; with max_iter = 0, a positive seed, load and
\* tolerance it raises nothing and returns the seed with count 0.
C11_IterateW0AlwaysReturns ==
  (variant = "concept1" /\ InSolve /\ run = 1) =>
    /\ i <= max_iter
    /\ ret # << >> =>
         /\ ret[1].iters = i
         /\ Converged(ret[1].delta, err) =>
              (1 <= ret[1].iters /\ ret[1].iters <= max_iter)
    /\ (max_iter = 0 /\ SaneInputs /\ RLt(Zero, err)) =>
         /\ exc = ""
         /\ ret # << >> => (ret[1].W0 = W0_guess /\ ret[1].iters = 0)

\* C12: a result returned through the convergence branch closes the mass
\* balance W0 = (W_payload + W_crew) + We_W0 * W0 + fuel_frac * W0, and the
\* dictionary solve_case builds from it keeps W0 = payload + crew + We + Wf
\* with W_engine added to W0 and We.
C12_MassClosure ==
  (variant = "concept1" /\ run = 1 /\ ret # << >>
     /\ Converged(ret[1].delta, err)) =>
    /\ ret[1].W0 = RAdd(RAdd(Numerator, RMul(ret[1].We_W0, ret[1].W0)),
                        RMul(fuel_frac_total, ret[1].W0))
    /\ case # << >> =>
         case[1].W0 = RAdd(RAdd(Numerator, case[1].We), case[1].Wf)

\* A converged solve with a positive load, fuel and more than one update,
\* carried through solve_case.
C12_Witness ==
  /\ variant = "concept1" /\ run = 1 /\ pc = "solved" /\ case # << >>
  /\ Converged(ret[1].delta, err) /\ ret[1].iters >= 2
  /\ RLt(Zero, Numerator) /\ RLt(Zero, fuel_frac_total)
  /\ RLt(Zero, ret[1].W0) /\ ret[1].W0 # W0_guess

====
